---------------------------- MODULE Spec2Model ----------------------------
(***************************************************************************)
(* keygraph-rs: keyboard layouts compiled into directed adjacency graphs.  *)
(*                                                                         *)
(* Characters are their code points.  A graph is a DiGraphMap<Key, Edge>:  *)
(* its nodes in insertion order (a sequence without repetition; nodes()    *)
(* iterates in that order) and at most one weighted edge for every ordered *)
(* pair of nodes.                                                          *)
(***************************************************************************)
EXTENDS Integers, Sequences, FiniteSets

(***************************************************************************)
(* Bounds of the explored inputs.                                          *)
(***************************************************************************)
\* longest layout text handed to connect_keyboard_nodes by a caller other
\* than the four generators
MaxLen == 4
\* longest key vector handed to add_remaining_keys by such a caller
MaxKeys == 2

(***************************************************************************)
(* Characters.                                                             *)
(***************************************************************************)
NUL == 0
SPACE == 32
LF == 10
LOWER_A == 97
LOWER_Z == 122
DIGIT_0 == 48

\* the characters a layout text of the bounded callers is written with
TextChars == {NUL, LOWER_A, LOWER_A + 1, SPACE, LF}
\* the characters the bounded callers look up
QueryChars == {NUL, LOWER_A, LOWER_A + 1}
ASCII == 0 .. 127

(***************************************************************************)
(* Key, Option<Key>, Direction, Edge, KeyboardStyle.                       *)
(***************************************************************************)
Key(v, s) == [value |-> v, shifted |-> s]

None == << >>
Some(k) == << k >>

Direction_Previous == -1
Direction_Next == 1
Direction_Same == 0

Edge(h, v) == [horizontal |-> h, vertical |-> v]

KeyboardStyle == {"Slanted", "Aligned"}

\* Mutant: the upper neighbours are taken on the left instead of the right.
get_slanted_positions_upper_left ==
    << Edge(Direction_Previous, Direction_Same),
       Edge(Direction_Same, Direction_Previous),
       Edge(Direction_Previous, Direction_Previous),
       Edge(Direction_Next, Direction_Same),
       Edge(Direction_Same, Direction_Next),
       Edge(Direction_Previous, Direction_Next) >>

get_slanted_positions ==
    << Edge(Direction_Previous, Direction_Same),
       Edge(Direction_Same, Direction_Previous),
       Edge(Direction_Next, Direction_Previous),
       Edge(Direction_Next, Direction_Same),
       Edge(Direction_Same, Direction_Next),
       Edge(Direction_Previous, Direction_Next) >>

\* Mutant: the offset towards the lower right is forgotten.
get_aligned_positions_without_lower_right ==
    << Edge(Direction_Previous, Direction_Same),
       Edge(Direction_Previous, Direction_Previous),
       Edge(Direction_Same, Direction_Previous),
       Edge(Direction_Next, Direction_Previous),
       Edge(Direction_Next, Direction_Same),
       Edge(Direction_Same, Direction_Next),
       Edge(Direction_Previous, Direction_Next) >>

get_aligned_positions ==
    << Edge(Direction_Previous, Direction_Same),
       Edge(Direction_Previous, Direction_Previous),
       Edge(Direction_Same, Direction_Previous),
       Edge(Direction_Next, Direction_Previous),
       Edge(Direction_Next, Direction_Same),
       Edge(Direction_Next, Direction_Next),
       Edge(Direction_Same, Direction_Next),
       Edge(Direction_Previous, Direction_Next) >>

(***************************************************************************)
(* DiGraphMap<Key, Edge>.                                                  *)
(***************************************************************************)
NewGraph == [nodes |-> << >>, edges |-> {}]

Range(s) == {s[i] : i \in DOMAIN s}

contains_node(g, k) == k \in Range(g.nodes)

\* add_node: a node already present is left where it is
add_node(g, k) ==
    IF contains_node(g, k) THEN g
    ELSE [g EXCEPT !.nodes = Append(g.nodes, k)]

\* add_edge: inserts both endpoints when absent and replaces the weight of an
\* edge a -> b that exists
add_edge(g, a, b, w) ==
    LET g2 == add_node(add_node(g, a), b)
    IN  [g2 EXCEPT !.edges =
            {e \in g.edges : ~(e.src = a /\ e.dst = b)}
                \cup {[src |-> a, dst |-> b, dir |-> w]}]

nth0(s) == IF Len(s) = 0 THEN None ELSE Some(s[1])

\* Mutant: the sentinel is looked up like any other character.
find_key_without_sentinel_test(g, v) ==
    nth0(SelectSeq(g.nodes, LAMBDA x : x.value = v \/ x.shifted = v))

\* Mutant: only the unshifted character of a key is compared.
find_key_by_value_only(g, v) ==
    IF v = NUL
    THEN None
    ELSE nth0(SelectSeq(g.nodes, LAMBDA x : x.value = v))

find_key(g, v) ==
    IF v = NUL
    THEN None
    ELSE nth0(SelectSeq(g.nodes, LAMBDA x : x.value = v \/ x.shifted = v))

(***************************************************************************)
(* Populating the nodes.                                                   *)
(***************************************************************************)
\* Mutant: the letter is not converted.
to_uppercase_unconverted(c) == c

\* char::to_uppercase on the characters of ALPHABET
to_uppercase(c) == IF c >= LOWER_A /\ c <= LOWER_Z THEN c - 32 ELSE c

ALPHABET == [i \in 1 .. 26 |-> LOWER_A + i - 1]
NUMBERS == [i \in 1 .. 10 |-> DIGIT_0 + i - 1]

RECURSIVE add_nodes(_, _, _)
add_nodes(g, keys, i) ==
    IF i > Len(keys) THEN g
    ELSE add_nodes(add_node(g, keys[i]), keys, i + 1)

add_alphabetics(g) ==
    add_nodes(g, [i \in DOMAIN ALPHABET |->
                    Key(ALPHABET[i], to_uppercase(ALPHABET[i]))], 1)

add_unshifted_number_keys(g) ==
    add_nodes(g, [i \in DOMAIN NUMBERS |-> Key(NUMBERS[i], NUL)], 1)

add_remaining_keys(keys, g) == add_nodes(g, keys, 1)

(***************************************************************************)
(* connect_keyboard_nodes.                                                 *)
(***************************************************************************)
relative_positions(style) ==
    IF style = "Slanted" THEN get_slanted_positions ELSE get_aligned_positions

\* index of the first line feed of s, 0 when it has none
RECURSIVE first_lf(_, _)
first_lf(s, i) ==
    IF i > Len(s) THEN 0
    ELSE IF s[i] = LF THEN i ELSE first_lf(s, i + 1)

\* str::lines: the text cut at every line feed; a final line feed ends the
\* last line and opens no empty one (no text here holds a carriage return)
RECURSIVE lines(_)
lines(s) ==
    IF s = << >> THEN << >>
    ELSE LET i == first_lf(s, 1)
         IN  IF i = 0 THEN << s >>
             ELSE << SubSeq(s, 1, i - 1) >> \o lines(SubSeq(s, i + 1, Len(s)))

\* the rows of the keyboard: every line without its spaces
parse_rows(keyboard) ==
    LET ls == lines(keyboard)
    IN  [r \in DOMAIN ls |-> SelectSeq(ls[r], LAMBDA y : y # SPACE)]

\* the key a cell's character stands for: the one found, else a new key
\* without a shift mapping
key_or_new(k, c) == IF k # None THEN k[1] ELSE Key(c, NUL)

\* Mutant: the policy flag is read the wrong way round.
skip_missing_inverted(k, add_missing) == k = None /\ add_missing

\* a character that is not found is passed over unless missing keys are added
skip_missing(k, add_missing) == k = None /\ ~add_missing

\* Mutant: the first column is taken to be out of the grid.
in_grid_from_second_column(y, x, rowcount) ==
    y > -1 /\ y < rowcount /\ x > 0

\* the neighbour's row exists and its column is not left of the row's start
in_grid(y, x, rowcount) == y > -1 /\ y < rowcount /\ x > -1

\* Mutant: the two axes of the offset are exchanged.
connect_position_axes_exchanged(g, rows, i, j, k, dir, add_missing) ==
    LET y == i + dir.horizontal
        x == j + dir.vertical
    IN  IF ~in_grid(y, x, Len(rows)) THEN g
        ELSE LET temp_row == rows[y + 1]
             IN  IF x >= Len(temp_row) THEN g
                 ELSE LET temp_char == temp_row[x + 1]
                          n == find_key(g, temp_char)
                      IN  IF skip_missing(n, add_missing) THEN g
                          ELSE add_edge(g, k, key_or_new(n, temp_char), dir)

\* One pass of the loop over relative_positions for the cell (i, j), whose
\* key is k; i, j, y and x count from 0 as in the source.
connect_position(g, rows, i, j, k, dir, add_missing) ==
    LET y == i + dir.vertical
        x == j + dir.horizontal
    IN  IF ~in_grid(y, x, Len(rows)) THEN g
        ELSE LET temp_row == rows[y + 1]
             IN  IF x >= Len(temp_row) THEN g
                 ELSE LET temp_char == temp_row[x + 1]
                          n == find_key(g, temp_char)
                      IN  IF skip_missing(n, add_missing) THEN g
                          ELSE add_edge(g, k, key_or_new(n, temp_char), dir)

RECURSIVE connect_positions(_, _, _, _, _, _, _, _)
connect_positions(g, rows, i, j, k, positions, add_missing, d) ==
    IF d > Len(positions) THEN g
    ELSE LET g2 == connect_position(g, rows, i, j, k, positions[d],
                                    add_missing)
         IN  IF g2 = g
             THEN connect_positions(g, rows, i, j, k, positions,
                                    add_missing, d + 1)
             ELSE connect_positions(g2, rows, i, j, k, positions,
                                    add_missing, d + 1)

\* The body of the loop over the cells of a row, for the cell (i, j).
connect_cell(g, rows, i, j, positions, add_missing) ==
    LET key == rows[i + 1][j + 1]
        k == find_key(g, key)
    IN  IF skip_missing(k, add_missing) THEN g
        ELSE connect_positions(g, rows, i, j, key_or_new(k, key),
                               positions, add_missing, 1)

\* The two loops, rows from the top and cells from the left.  (Here and in
\* connect_positions the graph of a pass is compared with the one before it
\* so that TLC evaluates it before the next pass starts; both branches
\* continue with the same graph.)
RECURSIVE connect_cells(_, _, _, _, _, _)
connect_cells(g, rows, i, j, positions, add_missing) ==
    IF i >= Len(rows) THEN g
    ELSE IF j >= Len(rows[i + 1])
         THEN connect_cells(g, rows, i + 1, 0, positions, add_missing)
         ELSE LET g2 == connect_cell(g, rows, i, j, positions, add_missing)
              IN  IF g2 = g
                  THEN connect_cells(g, rows, i, j + 1, positions,
                                     add_missing)
                  ELSE connect_cells(g2, rows, i, j + 1, positions,
                                     add_missing)

connect_keyboard_nodes(keyboard, g, style, add_missing) ==
    connect_cells(g, parse_rows(keyboard), 0, 0,
                  relative_positions(style), add_missing)

(***************************************************************************)
(* The layout texts and key tables of the four generators.                 *)
(***************************************************************************)
qwerty_us ==
    <<
       96, 32, 49, 32, 50, 32, 51, 32, 52, 32, 53, 32, 54, 32, 55, 32,
       56, 32, 57, 32, 48, 32, 45, 32, 61, 10, 0, 32, 113, 32, 119, 32,
       101, 32, 114, 32, 116, 32, 121, 32, 117, 32, 105, 32, 111, 32, 112, 32,
       91, 32, 93, 32, 92, 10, 0, 32, 97, 32, 115, 32, 100, 32, 102, 32,
       103, 32, 104, 32, 106, 32, 107, 32, 108, 32, 59, 32, 39, 10, 0, 32,
       122, 32, 120, 32, 99, 32, 118, 32, 98, 32, 110, 32, 109, 32, 44, 32,
       46, 32, 47
    >>

dvorak ==
    <<
       96, 32, 49, 32, 50, 32, 51, 32, 52, 32, 53, 32, 54, 32, 55, 32,
       56, 32, 57, 32, 48, 32, 91, 32, 93, 10, 0, 32, 39, 32, 44, 32,
       46, 32, 112, 32, 121, 32, 102, 32, 103, 32, 99, 32, 114, 32, 108, 32,
       47, 32, 61, 32, 92, 10, 0, 32, 97, 32, 111, 32, 101, 32, 117, 32,
       105, 32, 100, 32, 104, 32, 116, 32, 110, 32, 115, 32, 45, 10, 0, 32,
       59, 32, 113, 32, 106, 32, 107, 32, 120, 32, 98, 32, 109, 32, 119, 32,
       118, 32, 122
    >>

standard_numpad ==
    <<
       0, 32, 47, 32, 42, 32, 45, 10, 55, 32, 56, 32, 57, 32, 43, 10,
       52, 32, 53, 32, 54, 10, 49, 32, 50, 32, 51, 10, 0, 32, 48, 32,
       46
    >>

mac_numpad ==
    <<
       0, 32, 61, 32, 47, 32, 42, 10, 55, 32, 56, 32, 57, 32, 45, 10,
       52, 32, 53, 32, 54, 32, 43, 10, 49, 32, 50, 32, 51, 10, 0, 32,
       48, 32, 46
    >>

\* the punctuation and digit keys of generate_qwerty_us and generate_dvorak
remaining_keys ==
    << Key(96, 126), Key(49, 33), Key(50, 64), Key(51, 35), Key(52, 36),
       Key(53, 37), Key(54, 94), Key(55, 38), Key(56, 42), Key(57, 40),
       Key(48, 41), Key(45, 95), Key(61, 43), Key(91, 123), Key(93, 125),
       Key(92, 124), Key(59, 58), Key(39, 34), Key(44, 60), Key(46, 62),
       Key(47, 63) >>

(***************************************************************************)
(* The inputs of a caller other than the four generators.                  *)
(***************************************************************************)
\* the keys such a caller registers: a key without a shift mapping, and a
\* key whose shifted character is the value of the first
KeyTable == {Key(LOWER_A + 1, NUL), Key(LOWER_A, LOWER_A + 1)}

SeqsUpTo(S, n) == UNION {[1 .. m -> S] : m \in 0 .. n}

(***************************************************************************)
(* The state: one run of a generator, or of a caller with bounded inputs.  *)
(***************************************************************************)
VARIABLES
    job,               \* which graph is being generated
    pc,                \* how far the generation has come
    graph,             \* the graph under construction
    keyboard,          \* the arguments of the connect_keyboard_nodes call
    style,
    add_missing_keys,
    before,            \* the graph as it was handed to connect_keyboard_nodes
    found              \* << v, find_key(v) >> of the last lookup, or << >>

vars == << job, pc, graph, keyboard, style, add_missing_keys, before, found >>

Generators == {"QWERTY_US", "DVORAK", "STANDARD_NUMPAD", "MAC_NUMPAD"}
Jobs == Generators \cup {"CALLER"}

Init ==
    /\ job \in Jobs
    /\ pc = "new"
    /\ graph = NewGraph
    /\ keyboard = << >>
    /\ style = "Unset"
    /\ add_missing_keys = FALSE
    /\ before = NewGraph
    /\ found = << >>

\* A run ends with one lookup in its graph, at any stage of the construction
\* (the tests look up after add_*, the users of the statics after the whole
\* generation).
Building == found = << >>

AddAlphabetics ==
    /\ Building
    /\ job \in {"QWERTY_US", "DVORAK"}
    /\ pc = "new"
    /\ graph' = add_alphabetics(graph)
    /\ pc' = "alphabetics"
    /\ UNCHANGED << job, keyboard, style, add_missing_keys, before, found >>

AddUnshiftedNumberKeys ==
    /\ Building
    /\ job = "STANDARD_NUMPAD"
    /\ pc = "new"
    /\ graph' = add_unshifted_number_keys(graph)
    /\ pc' = "populated"
    /\ UNCHANGED << job, keyboard, style, add_missing_keys, before, found >>

AddRemainingKeys ==
    /\ Building
    /\ \E keys \in IF job = "CALLER" THEN SeqsUpTo(KeyTable, MaxKeys)
                                     ELSE {remaining_keys} :
          graph' = add_remaining_keys(keys, graph)
    /\ \/ job \in {"QWERTY_US", "DVORAK"} /\ pc = "alphabetics"
       \/ job = "CALLER" /\ pc = "new"
    /\ pc' = "populated"
    /\ UNCHANGED << job, keyboard, style, add_missing_keys, before, found >>

\* the arguments each generator passes to connect_keyboard_nodes
Arguments(j) ==
    CASE j = "QWERTY_US" -> { << qwerty_us, "Slanted", FALSE >> }
      [] j = "DVORAK" -> { << dvorak, "Slanted", FALSE >> }
      [] j = "STANDARD_NUMPAD" -> { << standard_numpad, "Aligned", TRUE >> }
      [] j = "MAC_NUMPAD" -> { << mac_numpad, "Aligned", TRUE >> }
      [] OTHER -> SeqsUpTo(TextChars, MaxLen) \X KeyboardStyle \X BOOLEAN

ConnectKeyboardNodes ==
    /\ Building
    /\ IF job = "MAC_NUMPAD" THEN pc = "new" ELSE pc = "populated"
    /\ \E a \in Arguments(job) :
          /\ keyboard' = a[1]
          /\ style' = a[2]
          /\ add_missing_keys' = a[3]
          /\ graph' = connect_keyboard_nodes(a[1], graph, a[2], a[3])
    /\ before' = graph
    /\ pc' = "done"
    /\ UNCHANGED << job, found >>

FindKey ==
    /\ Building
    /\ \E v \in IF job = "CALLER" THEN QueryChars ELSE ASCII :
          found' = << v, find_key(graph, v) >>
    /\ UNCHANGED << job, pc, graph, keyboard, style, add_missing_keys, before >>

Next ==
    \/ AddAlphabetics
    \/ AddUnshiftedNumberKeys
    \/ AddRemainingKeys
    \/ ConnectKeyboardNodes
    \/ FindKey

Spec == Init /\ [][Next]_vars

(***************************************************************************)
(* Vocabulary of the properties.                                           *)
(***************************************************************************)
Nodes == Range(graph.nodes)
Done == pc = "done"

\* the cells (row, column), counted from 0, of a grid and their characters
CellsOf(rows) ==
    UNION {{<< i, j >> : j \in 0 .. Len(rows[i + 1]) - 1} :
              i \in 0 .. Len(rows) - 1}
CharAt(rows, p) == rows[p[1] + 1][p[2] + 1]

\* the label that leads from cell p to cell q
Offset(p, q) == Edge(q[2] - p[2], q[1] - p[1])
Negated(d) == Edge(0 - d.horizontal, 0 - d.vertical)

\* the key the finished graph gives a character under the call's policy:
\* << k >>, or << >> when the character is passed over
Resolved(c) ==
    LET k == find_key(graph, c)
    IN  IF k # None \/ ~add_missing_keys THEN k ELSE << Key(c, NUL) >>

\* every cell of a grid with its character and the key it stands for
KeyCells(rows) ==
    {[cell |-> p, char |-> CharAt(rows, p), key |-> Resolved(CharAt(rows, p))] :
        p \in CellsOf(rows)}

\* the cells, among kc, whose character stands for the key k
CellsOfKey(kc, k) == {x.cell : x \in {y \in kc : y.key = << k >>}}

\* every character but the sentinel occupies at most one cell
UniqueChars(kc) ==
    \A x, y \in kc : (x.cell # y.cell /\ x.char # NUL) => x.char # y.char

\* no two cells hold non-sentinel characters that stand for the same key
UniqueKeys(kc) ==
    \A x, y \in kc :
        (x.cell # y.cell /\ x.char # NUL /\ y.char # NUL /\ x.key # << >>)
            => x.key # y.key

LowerCase == LOWER_A .. LOWER_Z
AlphabeticKeys == {Key(l, l - 32) : l \in LowerCase}

(***************************************************************************)
(* C1.  find_key(c) is None for the sentinel, whatever the graph holds;    *)
(* for any other character it is Some(k) for a node k whose value or       *)
(* shifted character is c when there is such a node, and None when there   *)
(* is none.                                                                *)
(***************************************************************************)
C1_FindKeyContract ==
    found # << >> =>
        LET v == found[1]
            r == found[2]
            matching == {k \in Nodes : k.value = v \/ k.shifted = v}
        IN  IF v = NUL \/ matching = {}
            THEN r = << >>
            ELSE Len(r) = 1 /\ r[1] \in matching

C1_Witness ==
    /\ job = "STANDARD_NUMPAD"
    /\ found = << NUL, << >> >>
    /\ \E k \in Nodes : k.shifted = NUL

(***************************************************************************)
(* C2.  In the standard numpad key 5 has exactly 8 outgoing edges, to the  *)
(* keys 1 2 3 4 6 7 8 9, each labelled with the offset from the cell of 5  *)
(* to the cell of its target.                                              *)
(***************************************************************************)
C2_NumpadFive ==
    (job = "STANDARD_NUMPAD" /\ Done) =>
        LET rows == parse_rows(keyboard)
            cell(c) == CHOOSE p \in CellsOf(rows) : CharAt(rows, p) = c
            out == {e \in graph.edges : e.src = Key(53, NUL)}
        IN  /\ Cardinality(out) = 8
            /\ {e.dst : e \in out} =
                    {Key(c, NUL) : c \in {49, 50, 51, 52, 54, 55, 56, 57}}
            /\ \A e \in out : e.dir = Offset(cell(53), cell(e.dst.value))

C2_Witness ==
    /\ job = "STANDARD_NUMPAD"
    /\ Done
    /\ [src |-> Key(53, NUL), dst |-> Key(57, NUL),
        dir |-> Edge(Direction_Next, Direction_Previous)] \in graph.edges

(***************************************************************************)
(* C3 as stated.  After connect_keyboard_nodes, whatever the layout text,  *)
(* every edge A -> B with label d has an edge B -> A with label -d.        *)
(***************************************************************************)
C3_Symmetry ==
    Done =>
        \A e \in graph.edges :
            [src |-> e.dst, dst |-> e.src, dir |-> Negated(e.dir)]
                \in graph.edges

(***************************************************************************)
(* C3 as amended.  After connect_keyboard_nodes on a graph without edges,  *)
(* every edge A -> B has an edge B -> A, and when A and B are each the key *)
(* of exactly one cell of the grid the label of B -> A is the negated      *)
(* label of A -> B.                                                        *)
(***************************************************************************)
C3_SymmetryOfSingleCellKeys ==
    Done =>
        LET kc == KeyCells(parse_rows(keyboard))
        IN  \A e \in graph.edges :
              /\ \E f \in graph.edges : f.src = e.dst /\ f.dst = e.src
              /\ (/\ Cardinality(CellsOfKey(kc, e.src)) = 1
                  /\ Cardinality(CellsOfKey(kc, e.dst)) = 1)
                 => [src |-> e.dst, dst |-> e.src, dir |-> Negated(e.dir)]
                        \in graph.edges

\* a ragged grid with a sentinel cell whose key, created on the way, has a
\* diagonal edge to a key of a single cell
C3_Witness ==
    /\ Done
    /\ job = "CALLER"
    /\ add_missing_keys
    /\ LET rows == parse_rows(keyboard)
           kc == KeyCells(rows)
       IN  /\ Len(rows) = 2
           /\ Len(rows[1]) # Len(rows[2])
           /\ \E e \in graph.edges :
                 /\ e.src.value = NUL
                 /\ e.dir.horizontal # 0 /\ e.dir.vertical # 0
                 /\ Cardinality(CellsOfKey(kc, e.src)) = 1
                 /\ Cardinality(CellsOfKey(kc, e.dst)) = 1

(***************************************************************************)
(* C4.  None of the four generated graphs has an edge from a key to        *)
(* itself.                                                                 *)
(***************************************************************************)
C4_NoSelfLoops ==
    (job \in Generators /\ Done) => \A e \in graph.edges : e.src # e.dst

C4_Witness ==
    /\ job = "MAC_NUMPAD"
    /\ Done
    /\ \E e \in graph.edges : e.src.value = NUL

(***************************************************************************)
(* C5.  After connect_keyboard_nodes, under either policy, no node of the  *)
(* graph has the sentinel as its value and no edge starts or ends at such  *)
(* a key.                                                                  *)
(***************************************************************************)
C5_NoSentinelKey ==
    Done =>
        /\ \A k \in Nodes : k.value # NUL
        /\ \A e \in graph.edges : e.src.value # NUL /\ e.dst.value # NUL

(***************************************************************************)
(* C6.  With add_missing_keys = false connect_keyboard_nodes leaves the    *)
(* nodes as they were and adds edges between those nodes only; QWERTY_US   *)
(* and DVORAK hold no key outside the alphabetic and punctuation tables.   *)
(***************************************************************************)
C6_PreRegisteredAddsNoNodes ==
    (Done /\ ~add_missing_keys) =>
        /\ graph.nodes = before.nodes
        /\ \A e \in graph.edges :
              e.src \in Range(before.nodes) /\ e.dst \in Range(before.nodes)
        /\ job \in {"QWERTY_US", "DVORAK"} =>
              Nodes \subseteq AlphabeticKeys \cup Range(remaining_keys)

\* a layout with a registered key next to a character that is not registered
C6_Witness ==
    /\ Done
    /\ ~add_missing_keys
    /\ job = "CALLER"
    /\ graph.edges # {}
    /\ LET rows == parse_rows(keyboard)
       IN  \E p, q \in CellsOf(rows) :
              /\ q[1] = p[1] /\ q[2] = p[2] + 1
              /\ Resolved(CharAt(rows, p)) # << >>
              /\ CharAt(rows, q) # NUL
              /\ Resolved(CharAt(rows, q)) = << >>

(***************************************************************************)
(* C7.  In QWERTY_US q has an edge to 1 and an edge to 2, each labelled    *)
(* with the offset between the two cells, exactly one edge to w, and no    *)
(* edge to or from the sentinel cell on its left.                          *)
(***************************************************************************)
C7_QwertyQ ==
    (job = "QWERTY_US" /\ Done) =>
        LET rows == parse_rows(keyboard)
            cell(c) == CHOOSE p \in CellsOf(rows) : CharAt(rows, p) = c
            q == Key(113, 81)
        IN  /\ [src |-> q, dst |-> Key(49, 33),
                dir |-> Offset(cell(113), cell(49))] \in graph.edges
            /\ [src |-> q, dst |-> Key(50, 64),
                dir |-> Offset(cell(113), cell(50))] \in graph.edges
            /\ Cardinality({e \in graph.edges :
                                e.src = q /\ e.dst = Key(119, 87)}) = 1
            /\ CharAt(rows, << cell(113)[1], cell(113)[2] - 1 >>) = NUL
            /\ \A e \in graph.edges :
                  /\ e.src = q =>
                        /\ e.dst.value # NUL
                        /\ e.dir # Edge(Direction_Previous, Direction_Same)
                  /\ e.dst = q =>
                        /\ e.src.value # NUL
                        /\ e.dir # Edge(Direction_Next, Direction_Same)

C7_Witness ==
    /\ job = "QWERTY_US"
    /\ Done
    /\ [src |-> Key(113, 81), dst |-> Key(50, 64),
        dir |-> Edge(Direction_Next, Direction_Previous)] \in graph.edges

(***************************************************************************)
(* C8.  From add_alphabetics on, through the finished QWERTY_US and DVORAK *)
(* graphs, every letter has the node {lowercase, uppercase}, and find_key  *)
(* of either character returns that node.                                  *)
(***************************************************************************)
C8_Alphabetics ==
    (job \in {"QWERTY_US", "DVORAK"} /\ pc # "new") =>
        /\ \A l \in LowerCase :
              /\ Key(l, l - 32) \in Nodes
              /\ find_key(graph, l) = << Key(l, l - 32) >>
              /\ find_key(graph, l - 32) = << Key(l, l - 32) >>
        /\ (found # << >> /\ found[1] \in LowerCase) =>
              found[2] = << Key(found[1], found[1] - 32) >>
        /\ (found # << >> /\ found[1] + 32 \in LowerCase) =>
              found[2] = << Key(found[1] + 32, found[1]) >>

C8_Witness ==
    /\ job = "DVORAK"
    /\ Done
    /\ found = << 81, << Key(113, 81) >> >>

(***************************************************************************)
(* C9 as stated.  When every character but the sentinel occupies one cell, *)
(* every edge A -> B between non-sentinel keys has a label d of the        *)
(* style's offsets with cell(B) = cell(A) + d, the cell of a key being the *)
(* cell of the character that resolves to it.                              *)
(***************************************************************************)
C9_ExactOffsets ==
    LET kc == KeyCells(parse_rows(keyboard))
    IN  (Done /\ UniqueChars(kc)) =>
            \A e \in graph.edges :
                (e.src.value # NUL /\ e.dst.value # NUL) =>
                    /\ e.dir \in Range(relative_positions(style))
                    /\ CellsOfKey(kc, e.src) # {}
                    /\ CellsOfKey(kc, e.dst) # {}
                    /\ \A p \in CellsOfKey(kc, e.src) :
                          \A q \in CellsOfKey(kc, e.dst) :
                              e.dir = Offset(p, q)

(***************************************************************************)
(* C9 as amended.  The same, for layouts in which moreover no two cells    *)
(* hold characters that resolve to the same key.                           *)
(***************************************************************************)
C9_ExactOffsetsOfDistinctKeys ==
    LET kc == KeyCells(parse_rows(keyboard))
    IN  (Done /\ UniqueChars(kc) /\ UniqueKeys(kc)) =>
            \A e \in graph.edges :
                (e.src.value # NUL /\ e.dst.value # NUL) =>
                    /\ e.dir \in Range(relative_positions(style))
                    /\ CellsOfKey(kc, e.src) # {}
                    /\ CellsOfKey(kc, e.dst) # {}
                    /\ \A p \in CellsOfKey(kc, e.src) :
                          \A q \in CellsOfKey(kc, e.dst) :
                              e.dir = Offset(p, q)

\* two rows of different lengths, a diagonal edge between registered keys
C9_Witness ==
    /\ Done
    /\ job = "CALLER"
    /\ LET rows == parse_rows(keyboard)
           kc == KeyCells(rows)
       IN  /\ UniqueChars(kc)
           /\ UniqueKeys(kc)
           /\ Len(rows) = 2
           /\ Len(rows[1]) # Len(rows[2])
           /\ \E e \in graph.edges :
                 /\ e.src.value # NUL /\ e.dst.value # NUL
                 /\ e.dir.horizontal # 0 /\ e.dir.vertical # 0

(***************************************************************************)
(* C10.  With add_missing_keys = true, after connect_keyboard_nodes every  *)
(* character but the sentinel that occupies a cell is found in the graph,  *)
(* also a character whose cell has no neighbour.                           *)
(***************************************************************************)
C10_AutoCreateCoversEveryCell ==
    (Done /\ add_missing_keys) =>
        LET rows == parse_rows(keyboard)
        IN  \A p \in CellsOf(rows) :
                CharAt(rows, p) # NUL => find_key(graph, CharAt(rows, p)) # None

=============================================================================
